---- MODULE Spec2Model ----
(***************************************************************************)
(* Schema merger of the federation gateway (federation/schema.go).         *)
(*                                                                         *)
(* The state is the service -> version -> introspection result table the   *)
(* gateway holds, together with the outcome of the last two runs of        *)
(* ConvertVersionedSchemas on that table.  Services report schemas         *)
(* (Report); the gateway merges the snapshot (Convert).                    *)
(*                                                                         *)
(* parseSchema is also studied on its own: typeList is a list of           *)
(* introspection types (Declare appends one) and typeTable the outcome of  *)
(* parseSchema on it (Parse).  plan is the Plan the planner made of a       *)
(* client's selection set against the annotated schema (PlanQuery).        *)
(***************************************************************************)
EXTENDS Integers, Sequences, FiniteSets, TLC

VARIABLES schemas, result, prev, typeList, typeTable, plan

vars == <<schemas, result, prev, typeList, typeTable, plan>>

(***************************************************************************)
(* Bounds of the model.                                                    *)
(***************************************************************************)
\* Number of (service, version) schemas the table may hold: with three, a
\* service of two versions is merged with a second service.
MaxReports == 3

\* Number of types of a list handed to parseSchema on its own.
MaxTypes == 3

\* Configured service names and the version names a service reports, both
\* in the order sort.Strings gives them.
Services == <<"A", "B">>
Versions == <<"v1", "v2">>

\* Every name of the model in lexicographic order: the order sort.Strings
\* and a sorted walk over map keys use.
NameOrder ==
  <<"A", "B", "B_Bar", "B_Foo", "Bar", "Federation", "Foo", "Keys", "Keys2", "Query",
    "_federation", "age", "g", "h", "keys", "more", "name", "string">>

federationField == "_federation"

(***************************************************************************)
(* Introspection model: type references, fields, types, schemas.           *)
(* A nil *introspectionTypeRef is the empty sequence, a non-nil one a      *)
(* one-element sequence.                                                   *)
(***************************************************************************)
Named(kind, name) == [kind |-> kind, name |-> name, ofType |-> <<>>]
ListOf(t) == [kind |-> "LIST", name |-> "", ofType |-> <<t>>]
NonNullOf(t) == [kind |-> "NON_NULL", name |-> "", ofType |-> <<t>>]

Arg(name, type) == [name |-> name, type |-> type]
Field(name, type, args) == [name |-> name, type |-> type, args |-> args]

ObjectT(name, fields) ==
  [name |-> name, kind |-> "OBJECT", fields |-> fields, inputFields |-> <<>>,
   possibleTypes |-> <<>>, enumValues |-> <<>>]
InputObjectT(name, inputFields) ==
  [name |-> name, kind |-> "INPUT_OBJECT", fields |-> <<>>,
   inputFields |-> inputFields, possibleTypes |-> <<>>, enumValues |-> <<>>]
ScalarT(name) ==
  [name |-> name, kind |-> "SCALAR", fields |-> <<>>, inputFields |-> <<>>,
   possibleTypes |-> <<>>, enumValues |-> <<>>]
UnionT(name, possibleTypes) ==
  [name |-> name, kind |-> "UNION", fields |-> <<>>, inputFields |-> <<>>,
   possibleTypes |-> possibleTypes, enumValues |-> <<>>]
EnumT(name, enumValues) ==
  [name |-> name, kind |-> "ENUM", fields |-> <<>>, inputFields |-> <<>>,
   possibleTypes |-> <<>>, enumValues |-> enumValues]
\* A type of a kind parseSchema does not know.
InterfaceT(name) ==
  [name |-> name, kind |-> "INTERFACE", fields |-> <<>>, inputFields |-> <<>>,
   possibleTypes |-> <<>>, enumValues |-> <<>>]

\* src/federation/schema.go:35-40
RECURSIVE getRootType(_)
getRootType(typ) ==
  IF typ.ofType = <<>> THEN typ ELSE getRootType(typ.ofType[1])

\* (*introspectionTypeRef).String, used by %s at schema.go:143.
RECURSIVE TypeRefString(_)
TypeRefString(t) ==
  CASE t.kind = "LIST" /\ t.ofType # <<>> ->
         "[" \o TypeRefString(t.ofType[1]) \o "]"
    [] t.kind = "NON_NULL" /\ t.ofType # <<>> ->
         TypeRefString(t.ofType[1]) \o "!"
    [] OTHER -> t.name

(***************************************************************************)
(* Sequence helpers.                                                       *)
(***************************************************************************)
Range(s) == {s[i] : i \in DOMAIN s}

RECURSIVE SelectNames(_, _)
\* The members of S in lexicographic order.
SelectNames(order, S) ==
  IF order = <<>> THEN <<>>
  ELSE IF Head(order) \in S
       THEN <<Head(order)>> \o SelectNames(Tail(order), S)
       ELSE SelectNames(Tail(order), S)

SortedNames(S) == SelectNames(NameOrder, S)

\* One iteration order of a Go map with key set S.  Go fixes no order; the
\* walk starts at an arbitrary key, here the (rot % n)-th of the sorted keys.
MapOrder(S, rot) ==
  LET keys == SortedNames(S)
      n == Len(keys)
  IN IF n = 0 THEN <<>>
     ELSE [i \in 1..n |-> keys[((i - 1 + rot) % n) + 1]]

(***************************************************************************)
(* Errors.  An error value is its kind and the names its message carries;  *)
(* NoError is Go's nil error.  A run-time panic (nil dereference, failed   *)
(* type assertion) is the kind "panic".                                    *)
(***************************************************************************)
NoError == [kind |-> "nil", args |-> <<>>]
Err(kind, args) == [kind |-> kind, args |-> args]

\* The first error of a sequence of errors, NoError when there is none:
\* what a loop that returns on the first error returns.
RECURSIVE FirstError(_)
FirstError(errs) ==
  IF errs = <<>> THEN NoError
  ELSE IF Head(errs) # NoError THEN Head(errs) ELSE FirstError(Tail(errs))

(***************************************************************************)
(* The schemas services report in this model.                              *)
(***************************************************************************)
String == Named("SCALAR", "string")
FooRef == Named("OBJECT", "Foo")

MarkerField == Field(federationField, String, <<>>)
NameField == Field("name", String, <<>>)
AgeField == Field("age", String, <<>>)
AgeListField == Field("age", ListOf(String), <<>>)
GField == Field("g", FooRef, <<>>)
HField == Field("h", ListOf(NonNullOf(FooRef)), <<>>)

keysArg == Arg("keys", NonNullOf(ListOf(Named("INPUT_OBJECT", "Keys"))))
moreArg == Arg("more", Named("INPUT_OBJECT", "Keys2"))
scalarArg == Arg("keys", ListOf(String))

\* A field of the Federation type: an entry point returning [Foo].
Entry(name, args) == Field(name, ListOf(FooRef), args)

KeysName == InputObjectT("Keys", <<Arg("name", String)>>)
KeysAgeName == InputObjectT("Keys", <<Arg("age", String), Arg("name", String)>>)
Keys2Age == InputObjectT("Keys2", <<Arg("age", String)>>)

\* Foo is a federated object with key field name; Query.g returns Foo.
OwnerSchema ==
  <<ObjectT("Foo", <<MarkerField, NameField>>), ObjectT("Query", <<GField>>),
    ScalarT("string")>>
\* The same with the further field Foo.age.
OwnerAgeSchema ==
  <<ObjectT("Foo", <<MarkerField, AgeField, NameField>>), ObjectT("Query", <<GField>>),
    ScalarT("string")>>
\* Foo without the federation marker.
PlainSchema ==
  <<ObjectT("Foo", <<NameField>>), ObjectT("Query", <<GField>>), ScalarT("string")>>
\* Query carries the marker too, and Foo.age has another type ([string]).
QueryFedSchema ==
  <<ObjectT("Foo", <<MarkerField, AgeListField, NameField>>),
    ObjectT("Query", <<MarkerField, GField>>), ScalarT("string")>>
\* An entry point B_Foo keyed on name, and nothing else.
EntrySchema ==
  <<ObjectT("Federation", <<Entry("B_Foo", <<keysArg>>)>>), KeysName,
    ScalarT("string")>>
\* An entry point B_Foo keyed on age and name.
EntryAgeSchema ==
  <<ObjectT("Federation", <<Entry("B_Foo", <<keysArg>>)>>), KeysAgeName,
    ScalarT("string")>>
\* An entry point B_Foo and a further field Query.h returning [Foo!].
ShadowSchema ==
  <<ObjectT("Federation", <<Entry("B_Foo", <<keysArg>>)>>), KeysName,
    ObjectT("Query", <<HField>>), ScalarT("string")>>
\* Query.h returning [Foo!] and no entry point; Foo is not declared.
ReturnsSchema == <<ObjectT("Query", <<HField>>), ScalarT("string")>>
\* The owner of Foo, with its own entry point B_Foo keyed on age and name.
OwnerEntryAgeSchema ==
  <<ObjectT("Federation", <<Entry("B_Foo", <<keysArg>>)>>),
    ObjectT("Foo", <<MarkerField, AgeField, NameField>>), KeysAgeName,
    ObjectT("Query", <<GField>>), ScalarT("string")>>
\* Entry points with a name that has no underscore, and that names no type.
NoUnderscoreSchema ==
  <<ObjectT("Federation", <<Entry("Foo", <<keysArg>>)>>), KeysName,
    ScalarT("string")>>
UnknownObjectSchema ==
  <<ObjectT("Federation", <<Entry("B_Bar", <<keysArg>>)>>), KeysName,
    ScalarT("string")>>
\* Entry points with no argument, a scalar argument, two arguments.
NoArgsSchema ==
  <<ObjectT("Federation", <<Entry("B_Foo", <<>>)>>), ScalarT("string")>>
ScalarArgSchema ==
  <<ObjectT("Federation", <<Entry("B_Foo", <<scalarArg>>)>>),
    ScalarT("string")>>
TwoArgsSchema ==
  <<ObjectT("Federation", <<Entry("B_Foo", <<keysArg, moreArg>>)>>),
    KeysName, Keys2Age, ScalarT("string")>>

\* A service that extends Foo with the field age and offers the entry
\* point B_Foo keyed on name.
ExtenderSchema ==
  <<ObjectT("Federation", <<Entry("B_Foo", <<keysArg>>)>>),
    ObjectT("Foo", <<MarkerField, AgeField, NameField>>), KeysName,
    ScalarT("string")>>

ReportedSchemas ==
  {ExtenderSchema, OwnerSchema, OwnerAgeSchema, PlainSchema, QueryFedSchema, EntrySchema,
   EntryAgeSchema, ShadowSchema, NoUnderscoreSchema, UnknownObjectSchema,
   NoArgsSchema, ScalarArgSchema, TwoArgsSchema, ReturnsSchema,
   OwnerEntryAgeSchema}

\* The schemas a service reports as a further version: against the first
\* version they keep or drop the marker, a field, a member of the input
\* object, the entry point.
RevisedSchemas == {ExtenderSchema, OwnerSchema, PlainSchema}

TypeNames == {"Federation", "Foo", "Keys", "Keys2", "Query", "string"}

\* Every start a walk over a map of the model can take: no map is larger
\* than the type table.
MapRots == 0 .. (Cardinality(TypeNames) - 1)

(***************************************************************************)
(* The introspection types handed to parseSchema on its own.               *)
(***************************************************************************)
BarRef == Named("OBJECT", "Bar")
NodeRef == Named("INTERFACE", "Node")
\* Wrappers whose ofType is nil.
BareList == [kind |-> "LIST", name |-> "", ofType |-> <<>>]
BareNonNull == [kind |-> "NON_NULL", name |-> "", ofType |-> <<>>]

\* Foo refers to itself (s1nest: Foo, with an enum argument) and to Bar
\* ([Bar!]); Bar refers back to Foo.
NestFoo ==
  ObjectT("Foo",
          <<Field("s1nest", FooRef,
                  <<Arg("keys", NonNullOf(ListOf(Named("ENUM", "E"))))>>),
            Field("s2bar", ListOf(NonNullOf(BarRef)), <<>>)>>)
BackBar == ObjectT("Bar", <<Field("foo", NonNullOf(FooRef), <<>>)>>)
LeafFoo == ObjectT("Foo", <<NameField>>)
\* Unions: of the object Foo; with a possible type of kind SCALAR; with a
\* possible type of kind OBJECT that names the scalar.
FooUnion == UnionT("U", <<FooRef>>)
ScalarUnion == UnionT("U", <<String>>)
MiskindUnion == UnionT("U", <<Named("OBJECT", "string")>>)
\* Fields with a return type of unknown kind, and with a bare wrapper.
UnknownReturn == ObjectT("Query", <<Field("g", ListOf(NodeRef), <<>>)>>)
BareReturn == ObjectT("Query", <<Field("g", BareList, <<>>)>>)
\* Arguments of unknown kind, with a bare wrapper, and of kind OBJECT.
UnknownArg == ObjectT("Query", <<Field("g", String, <<Arg("keys", NodeRef)>>)>>)
BareArg == ObjectT("Query", <<Field("g", String, <<Arg("keys", BareNonNull)>>)>>)
ObjectArg == ObjectT("Query", <<Field("g", String, <<Arg("keys", FooRef)>>)>>)
\* Input-object fields of unknown kind and with a bare wrapper.
UnknownInput == InputObjectT("Keys", <<Arg("name", NonNullOf(NodeRef))>>)
BareInput == InputObjectT("Keys", <<Arg("name", BareList)>>)

IntrospectedTypes ==
  {ScalarT("string"), LeafFoo, NestFoo, BackBar, KeysName,
   EnumT("E", <<"x", "y">>), InterfaceT("Node"),
   FooUnion, ScalarUnion, MiskindUnion,
   UnknownReturn, BareReturn, UnknownArg, BareArg, ObjectArg,
   UnknownInput, BareInput}

(***************************************************************************)
(* mergeSchemaSlice: intersection of the versions of one service, union    *)
(* across services.                                                        *)
(***************************************************************************)
Intersection == "Intersection"
Union == "Union"

NamesOf(entries) == {entries[i].name : i \in DOMAIN entries}
ByName(entries, name) ==
  entries[CHOOSE i \in DOMAIN entries :
            /\ entries[i].name = name
            /\ \A j \in DOMAIN entries : entries[j].name = name => i <= j]

MergedNames(a, b, mode) ==
  IF mode = Union THEN NamesOf(a) \cup NamesOf(b)
  ELSE NamesOf(a) \cap NamesOf(b)

\* Two entries of the same name that cannot be one entry: fields and input
\* fields with structurally different type references.
Conflicts(a, b) ==
  {n \in NamesOf(a) \cap NamesOf(b) : ByName(a, n).type # ByName(b, n).type}

\* Fields, arguments and input fields: entries with a name and a type.
MergeTyped(a, b, mode) ==
  LET keep == IF mode = Union THEN MergedNames(a, b, mode)
              ELSE MergedNames(a, b, mode) \ Conflicts(a, b)
      names == SortedNames(keep)
  IN [i \in 1..Len(names) |->
        IF names[i] \in NamesOf(a) THEN ByName(a, names[i])
        ELSE ByName(b, names[i])]

\* Possible types of a union: type references, merged by name.
MergeRefs(a, b, mode) ==
  LET names == SortedNames(MergedNames(a, b, mode))
  IN [i \in 1..Len(names) |->
        IF names[i] \in NamesOf(a) THEN ByName(a, names[i])
        ELSE ByName(b, names[i])]

\* Enum values: names.
MergeValues(a, b, mode) ==
  SortedNames(IF mode = Union THEN Range(a) \cup Range(b)
              ELSE Range(a) \cap Range(b))

MergeType(a, b, mode) ==
  [name |-> a.name, kind |-> a.kind,
   fields |-> MergeTyped(a.fields, b.fields, mode),
   inputFields |-> MergeTyped(a.inputFields, b.inputFields, mode),
   possibleTypes |-> MergeRefs(a.possibleTypes, b.possibleTypes, mode),
   enumValues |-> MergeValues(a.enumValues, b.enumValues, mode)]

\* The names of the types both schemas declare, of different kinds or (for
\* a union across services) with a field both declare with different types.
TypeConflicts(a, b, mode) ==
  {n \in NamesOf(a) \cap NamesOf(b) :
     LET ta == ByName(a, n)
         tb == ByName(b, n)
     IN \/ ta.kind # tb.kind
        \/ /\ mode = Union
           /\ \/ Conflicts(ta.fields, tb.fields) # {}
              \/ Conflicts(ta.inputFields, tb.inputFields) # {}}

\* mergeSchemas: two introspection results into one, or an error.
mergeSchemas(a, b, mode) ==
  LET bad == TypeConflicts(a, b, mode)
      names == SortedNames(MergedNames(a, b, mode))
  IN IF bad # {}
     THEN [err |-> Err("conflicting types", <<SortedNames(bad)[1]>>),
           types |-> <<>>]
     ELSE [err |-> NoError,
           types |->
             [i \in 1..Len(names) |->
                LET n == names[i]
                IN IF n \in NamesOf(a) /\ n \in NamesOf(b)
                   THEN MergeType(ByName(a, n), ByName(b, n), mode)
                   ELSE IF n \in NamesOf(a) THEN ByName(a, n)
                   ELSE ByName(b, n)]]

RECURSIVE mergeInto(_, _, _)
mergeInto(merged, rest, mode) ==
  IF rest = <<>> \/ merged.err # NoError THEN merged
  ELSE mergeInto(mergeSchemas(merged.types, Head(rest), mode), Tail(rest), mode)

\* The slice is never empty: every service in the table has a version, and
\* the table has a service.
mergeSchemaSlice(slice, mode) ==
  mergeInto([err |-> NoError, types |-> Head(slice)], Tail(slice), mode)
(***************************************************************************)
(* parseSchema: the merged introspection result into the type table.       *)
(* A graphql.Type of the table is a record; a resolved type is the         *)
(* sequence of its List/NonNull wrappers, outermost first, ending with the *)
(* name of the table entry it points to.                                   *)
(***************************************************************************)
NamedKinds == {"SCALAR", "OBJECT", "UNION", "INPUT_OBJECT", "ENUM"}

Panic == Err("panic", <<>>)

\* src/federation/schema.go:324-338.  t is a pointer: <<>> or <<ref>>.
RECURSIVE lookupType(_, _)
lookupType(t, all) ==
  IF t = <<>> THEN [err |-> Err("malformed typeref", <<>>), ref |-> <<>>]
  ELSE CASE t[1].kind \in NamedKinds -> [err |-> NoError, ref |-> t]
         [] t[1].kind \in {"LIST", "NON_NULL"} -> lookupType(t[1].ofType, all)
         [] OTHER -> [err |-> Err("unknown type kind", <<t[1].kind>>),
                      ref |-> <<>>]

\* src/federation/schema.go:341-376
RECURSIVE lookupTypeRef(_, _)
lookupTypeRef(t, all) ==
  IF t = <<>> THEN [err |-> Err("malformed typeref", <<>>), type |-> <<>>]
  ELSE CASE t[1].kind \in NamedKinds ->
              IF t[1].name \in DOMAIN all
              THEN [err |-> NoError, type |-> <<t[1].name>>]
              ELSE [err |-> Err("type not found among top-level types",
                                <<t[1].name>>),
                    type |-> <<>>]
         [] t[1].kind = "LIST" ->
              LET inner == lookupTypeRef(t[1].ofType, all)
              IN IF inner.err # NoError THEN inner
                 ELSE [err |-> NoError, type |-> <<"List">> \o inner.type]
         [] t[1].kind = "NON_NULL" ->
              LET inner == lookupTypeRef(t[1].ofType, all)
              IN IF inner.err # NoError THEN inner
                 ELSE [err |-> NoError, type |-> <<"NonNull">> \o inner.type]
         [] OTHER -> [err |-> Err("unknown type kind", <<t[1].kind>>),
                      type |-> <<>>]

\* One input field of parseInputFields (schema.go:382-399): its error, or
\* NoError and its resolved type.
parseInputField(field, all) ==
  LET raw == lookupType(<<field.type>>, all)
      inputType == lookupTypeRef(<<field.type>>, all)
  IN IF raw.err # NoError
     THEN \* line 386 reads rawType.Name of the nil rawType
          [err |-> Panic, type |-> <<>>]
     ELSE IF raw.ref[1].kind \notin {"INPUT_OBJECT", "SCALAR", "ENUM"}
     THEN [err |-> Err("input field has bad typ", <<field.name, raw.ref[1].kind>>),
           type |-> <<>>]
     ELSE IF inputType.err # NoError
     THEN [err |-> Err("field has bad typ", <<field.name>>), type |-> <<>>]
     ELSE inputType

\* src/federation/schema.go:379-402
parseInputFields(source, all) ==
  LET parsed == [i \in DOMAIN source |-> parseInputField(source[i], all)]
      err == FirstError([i \in DOMAIN source |-> parsed[i].err])
  IN IF err # NoError THEN [err |-> err, fields |-> <<>>]
     ELSE [err |-> NoError,
           fields |-> [n \in NamesOf(source) |->
                         \* a later entry of the same name overwrites
                         parsed[CHOOSE i \in DOMAIN source :
                                  /\ source[i].name = n
                                  /\ \A j \in DOMAIN source :
                                        source[j].name = n => j <= i].type]]

\* The barebone type the first pass puts in the table (schema.go:414-442).
Shell(typ) ==
  [kind |-> typ.kind, name |-> typ.name, fields |-> <<>>,
   inputFields |-> <<>>, types |-> {}, values |-> <<>>]

\* shellError without the test for a name the table already holds.
shellErrorNoDuplicate(types, i) ==
  IF types[i].kind \notin NamedKinds
  THEN Err("unknown type kind", <<types[i].kind>>)
  ELSE NoError

\* The first pass over one type: a duplicate name, an unknown kind.
shellError(types, i) ==
  IF \E j \in 1..(i - 1) : types[j].name = types[i].name
  THEN Err("duplicate type", <<types[i].name>>)
  ELSE IF types[i].kind \notin NamedKinds
  THEN Err("unknown type kind", <<types[i].kind>>)
  ELSE NoError

\* One field of an object in the second pass (schema.go:450-466).
parseField(typ, field, all) ==
  LET fieldTyp == lookupTypeRef(<<field.type>>, all)
      parsed == parseInputFields(field.args, all)
  IN IF fieldTyp.err # NoError
     THEN [err |-> Err("field has bad typ", <<typ.name, field.name>>),
           field |-> <<>>]
     ELSE IF parsed.err = Panic THEN [err |-> Panic, field |-> <<>>]
     ELSE IF parsed.err # NoError
     THEN [err |-> Err("field input", <<field.name>>), field |-> <<>>]
     ELSE [err |-> NoError,
           field |-> [Args |-> parsed.fields, Type |-> fieldTyp.type]]

\* One possible type of a union in the second pass (schema.go:480-489).
possibleTypeError(typ, other, all) ==
  IF other.kind # "OBJECT"
  THEN Err("possible typ not OBJECT", <<typ.name>>)
  ELSE IF other.name \notin DOMAIN all \/ all[other.name].kind # "OBJECT"
  THEN \* line 486 reads typ.Name of the nil *graphql.Object
       Panic
  ELSE NoError

\* The second pass over one type (schema.go:446-512): its error, or NoError
\* and the populated type.
populate(typ, all) ==
  CASE typ.kind = "OBJECT" ->
         LET parsed == [i \in DOMAIN typ.fields |->
                          parseField(typ, typ.fields[i], all)]
             err == FirstError([i \in DOMAIN typ.fields |-> parsed[i].err])
         IN IF err # NoError THEN [err |-> err, type |-> Shell(typ)]
            ELSE [err |-> NoError,
                  type |->
                    [Shell(typ) EXCEPT
                       !.fields =
                         [n \in NamesOf(typ.fields) |->
                            parsed[CHOOSE i \in DOMAIN typ.fields :
                                     /\ typ.fields[i].name = n
                                     /\ \A j \in DOMAIN typ.fields :
                                           typ.fields[j].name = n => j <= i
                                  ].field]]]
    [] typ.kind = "INPUT_OBJECT" ->
         LET parsed == parseInputFields(typ.inputFields, all)
         IN IF parsed.err = Panic THEN [err |-> Panic, type |-> Shell(typ)]
            ELSE IF parsed.err # NoError
            THEN [err |-> Err("typ", <<typ.name>>), type |-> Shell(typ)]
            ELSE [err |-> NoError,
                  type |-> [Shell(typ) EXCEPT !.inputFields = parsed.fields]]
    [] typ.kind = "UNION" ->
         LET err == FirstError([i \in DOMAIN typ.possibleTypes |->
                      possibleTypeError(typ, typ.possibleTypes[i], all)])
         IN IF err # NoError THEN [err |-> err, type |-> Shell(typ)]
            ELSE [err |-> NoError,
                  type |-> [Shell(typ) EXCEPT
                              !.types = NamesOf(typ.possibleTypes)]]
    [] typ.kind = "ENUM" ->
         [err |-> NoError,
          type |-> [Shell(typ) EXCEPT !.values = typ.enumValues]]
    [] OTHER -> [err |-> NoError, type |-> Shell(typ)]

\* parseSchema in one pass: a type is populated against the types that
\* stand before it in the list and itself.
parseSchemaOnePass(types) ==
  LET shells == FirstError([i \in DOMAIN types |-> shellError(types, i)])
      upTo(i) == [n \in {types[j].name : j \in 1..i} |->
                    Shell(ByName(types, n))]
      done == [i \in DOMAIN types |-> populate(types[i], upTo(i))]
      err == FirstError([i \in DOMAIN types |-> done[i].err])
  IN IF shells # NoError THEN [err |-> shells, types |-> <<>>]
     ELSE IF err # NoError THEN [err |-> err, types |-> <<>>]
     ELSE [err |-> NoError,
           types |-> [n \in NamesOf(types) |->
                        done[CHOOSE i \in DOMAIN types :
                               types[i].name = n].type]]

\* src/federation/schema.go:406-515.  types is schema.Schema.Types.
parseSchema(types) ==
  LET shells == FirstError([i \in DOMAIN types |-> shellError(types, i)])
      all == [n \in NamesOf(types) |-> Shell(ByName(types, n))]
      done == [i \in DOMAIN types |-> populate(types[i], all)]
      err == FirstError([i \in DOMAIN types |-> done[i].err])
  IN IF shells # NoError THEN [err |-> shells, types |-> <<>>]
     ELSE IF err # NoError THEN [err |-> err, types |-> <<>>]
     ELSE [err |-> NoError,
           types |-> [n \in NamesOf(types) |->
                        done[CHOOSE i \in DOMAIN types :
                               types[i].name = n].type]]
(***************************************************************************)
(* The federation validations.  byName is serviceSchemasByName: service    *)
(* name -> the types of the intersection of its versions.                  *)
(***************************************************************************)
HasField(typ, name) == \E i \in DOMAIN typ.fields : typ.fields[i].name = name

\* validateFederationKeys returning nil where it found the key missing.
validateFederationKeysUnchecked(serviceNames, byName, objName, keyField) ==
  NoError

\* validateFederationKeys without the root-object test: every service that
\* declares the object must expose the key.
validateFederationKeysAnyService(serviceNames, byName, objName, keyField) ==
  IF \E s \in DOMAIN serviceNames :
       \E t \in DOMAIN byName[serviceNames[s]] :
         LET typ == byName[serviceNames[s]][t]
         IN typ.name = objName /\ ~HasField(typ, keyField)
  THEN Err("Invalid federation key", <<keyField>>)
  ELSE NoError

\* src/federation/schema.go:45-76
validateFederationKeys(serviceNames, byName, objName, keyField) ==
  IF \E s \in DOMAIN serviceNames :
       \E t \in DOMAIN byName[serviceNames[s]] :
         LET typ == byName[serviceNames[s]][t]
             isRootObject == HasField(typ, federationField)
             validFederatedKey == isRootObject /\ HasField(typ, keyField)
         IN typ.name = objName /\ isRootObject /\ ~validFederatedKey
  THEN Err("Invalid federation key", <<keyField>>)
  ELSE NoError

\* validateFederatedObjects whose finding is dropped.
validateFederatedObjectsIgnored(serviceNames, byName, objName) == NoError

\* validateFederatedObjects without the exemption of Query and Mutation.
validateFederatedObjectsNoExemption(serviceNames, byName, objName) ==
  IF /\ \E s \in DOMAIN serviceNames :
          \E t \in DOMAIN byName[serviceNames[s]] :
            LET typ == byName[serviceNames[s]][t]
            IN typ.name = objName /\ HasField(typ, federationField)
     /\ \E s \in DOMAIN serviceNames :
          \E t \in DOMAIN byName[serviceNames[s]] :
            LET typ == byName[serviceNames[s]][t]
            IN typ.name = objName /\ ~HasField(typ, federationField)
  THEN Err("exists on another server and is not federated", <<objName>>)
  ELSE NoError

\* src/federation/schema.go:79-118
validateFederatedObjects(serviceNames, byName, objName) ==
  LET federatedOnOneService ==
        \E s \in DOMAIN serviceNames :
          \E t \in DOMAIN byName[serviceNames[s]] :
            LET typ == byName[serviceNames[s]][t]
            IN typ.name = objName /\ HasField(typ, federationField)
  IN IF /\ federatedOnOneService
        /\ objName # "Query"
        /\ objName # "Mutation"
        /\ \E s \in DOMAIN serviceNames :
             \E t \in DOMAIN byName[serviceNames[s]] :
               LET typ == byName[serviceNames[s]][t]
               IN typ.name = objName /\ ~HasField(typ, federationField)
     THEN Err("exists on another server and is not federated", <<objName>>)
     ELSE NoError

IsKind(types, name, kind) == name \in DOMAIN types /\ types[name].kind = kind

\* shadowError rejecting the field when the entry point <service>_<type>
\* is missing from the Federation object instead of when it is there.
shadowErrorMissingEntry(service, field, types, fieldInfos) ==
  LET fieldReturnType == getRootType(field.type)
      f == <<fieldReturnType.name, federationField>>
      federatedFieldName == service \o "_" \o TypeRefString(fieldReturnType)
  IN IF fieldReturnType.kind # "OBJECT" THEN NoError
     ELSE IF ~IsKind(types, fieldReturnType.name, "OBJECT")
     THEN Err("Return type is not a graphql object", <<fieldReturnType.name>>)
     ELSE IF federationField \notin DOMAIN types[fieldReturnType.name].fields
     THEN NoError
     ELSE IF f \notin DOMAIN fieldInfos THEN Panic
     ELSE IF service \in fieldInfos[f] THEN NoError
     ELSE IF field.name = federatedFieldName THEN NoError
     ELSE IF /\ IsKind(types, "Federation", "OBJECT")
             /\ federatedFieldName \in DOMAIN types["Federation"].fields
     THEN NoError
     ELSE Err("can not return shadow type", <<field.name, fieldReturnType.name>>)

\* One field of one object of one service in
\* validateFieldsReturningFederatedObject (schema.go:127-160).  fieldInfos
\* is keyed by the field: <<object name, field name>>.
shadowError(service, field, types, fieldInfos) ==
  LET fieldReturnType == getRootType(field.type)
      f == <<fieldReturnType.name, federationField>>
      federatedFieldName == service \o "_" \o TypeRefString(fieldReturnType)
  IN IF fieldReturnType.kind # "OBJECT" THEN NoError
     ELSE IF ~IsKind(types, fieldReturnType.name, "OBJECT")
     THEN Err("Return type is not a graphql object", <<fieldReturnType.name>>)
     ELSE IF federationField \notin DOMAIN types[fieldReturnType.name].fields
     THEN NoError
     ELSE IF f \notin DOMAIN fieldInfos THEN Panic
     ELSE IF service \in fieldInfos[f] THEN NoError
     ELSE IF field.name = federatedFieldName THEN NoError
     ELSE IF ~IsKind(types, "Federation", "OBJECT") THEN NoError
     ELSE IF federatedFieldName \in DOMAIN types["Federation"].fields
     THEN Err("can not return shadow type", <<field.name, fieldReturnType.name>>)
     ELSE NoError

\* The types of one service in schema.go:123-161.
shadowErrorOfService(service, serviceTypes, types, fieldInfos) ==
  FirstError(
    [t \in DOMAIN serviceTypes |->
       IF serviceTypes[t].kind # "OBJECT" THEN NoError
       ELSE FirstError(
              [i \in DOMAIN serviceTypes[t].fields |->
                 shadowError(service, serviceTypes[t].fields[i], types,
                             fieldInfos)])])

\* validateFieldsReturningFederatedObject returning after the first service
\* of the walk.
validateFieldsReturningFederatedObjectFirst(byName, types, fieldInfos, rot) ==
  LET order == MapOrder(DOMAIN byName, rot)
  IN shadowErrorOfService(order[1], byName[order[1]], types, fieldInfos)

\* src/federation/schema.go:121-166.  The services are walked in the order
\* of the map serviceSchemasByName.
validateFieldsReturningFederatedObject(byName, types, fieldInfos, rot) ==
  LET order == MapOrder(DOMAIN byName, rot)
  IN FirstError(
       [s \in DOMAIN order |->
          shadowErrorOfService(order[s], byName[order[s]], types, fieldInfos)])

(***************************************************************************)
(* ConvertVersionedSchemas.                                                *)
(***************************************************************************)
\* strings.SplitN(name, "_", 2): the name cut at its first underscore.  No
\* service name of the model holds an underscore.
NamePrefixes == Range(Services) \cup {""}
NameSuffixes == TypeNames \cup {"Bar", "federation"}
SplitN(name) ==
  IF \E p \in NamePrefixes, q \in NameSuffixes : p \o "_" \o q = name
  THEN CHOOSE names \in NamePrefixes \X NameSuffixes :
         names[1] \o "_" \o names[2] = name
  ELSE <<name>>

\* The result of a run: (nil, err), or the annotated schema and nil.  Fields
\* is the FieldInfo table (field -> Services), FederatedKey the maps the
\* run left on the fields of the type table (field -> services marked).
Failure(err) ==
  [ok |-> FALSE, err |-> err, types |-> <<>>, Fields |-> <<>>,
   FederatedKey |-> <<>>]
Success(types, fieldInfos, federatedKey) ==
  [ok |-> TRUE, err |-> NoError, types |-> types, Fields |-> fieldInfos,
   FederatedKey |-> federatedKey]

\* schema.go:173-177, 186-190: the sorted service and version names.
sortedServiceNames(table) == SelectNames(Services, DOMAIN table)
sortedVersionNames(versions) == SelectNames(Versions, DOMAIN versions)

\* serviceSchemaOf taking the first version for the service.
serviceSchemaOfFirst(versions) ==
  mergeSchemaSlice(<<versions[sortedVersionNames(versions)[1]]>>, Intersection)

\* schema.go:184-197: the intersection of the versions of one service.
serviceSchemaOf(versions) ==
  LET versionNames == sortedVersionNames(versions)
      versionSchemas == [i \in DOMAIN versionNames |-> versions[versionNames[i]]]
  IN mergeSchemaSlice(versionSchemas, Intersection)

\* schema.go:253-261: one input field of the argument of an entry point.
federationKeyError(serviceNames, byName, types, objName, rootType, fName) ==
  LET err == validateFederationKeys(serviceNames, byName, objName, fName)
  IN IF err # NoError THEN err
     ELSE IF fName \notin DOMAIN types[objName].fields
     THEN Err("input field is not a field on the object", <<fName, rootType.name>>)
     ELSE NoError

\* entryArgError accepting an argument of any type of the table.
entryArgErrorAnyType(serviceNames, byName, types, objName, field, arg, rot) ==
  LET rootType == getRootType(arg.type)
  IN IF rootType.name \notin DOMAIN types
     THEN Err("is not an input object", <<rootType.name, field.name>>)
     ELSE LET order == MapOrder(DOMAIN types[rootType.name].inputFields, rot)
          IN FirstError(
               [i \in DOMAIN order |->
                  federationKeyError(serviceNames, byName, types, objName,
                                     rootType, order[i])])

\* schema.go:243-274: one argument of an entry point.  The input fields
\* are walked in map order.
entryArgError(serviceNames, byName, types, objName, field, arg, rot) ==
  LET rootType == getRootType(arg.type)
  IN IF ~IsKind(types, rootType.name, "INPUT_OBJECT")
     THEN Err("is not an input object", <<rootType.name, field.name>>)
     ELSE LET order == MapOrder(DOMAIN types[rootType.name].inputFields, rot)
          IN FirstError(
               [i \in DOMAIN order |->
                  federationKeyError(serviceNames, byName, types, objName,
                                     rootType, order[i])])

\* entryError also holding the part before the underscore to be one of the
\* service names.
entryErrorKnownService(serviceNames, byName, types, field, rot) ==
  LET names == SplitN(field.name)
  IN IF Len(names) # 2 \/ names[1] \notin Range(serviceNames)
     THEN Err("doesnt have an object name and service name", <<field.name>>)
     ELSE IF ~IsKind(types, names[2], "OBJECT")
     THEN Err("Expected objectName on merged schema", <<names[2]>>)
     ELSE FirstError(
            [a \in DOMAIN field.args |->
               entryArgError(serviceNames, byName, types, names[2], field,
                             field.args[a], rot)])

\* schema.go:230-275: one field of a type named Federation.
entryError(serviceNames, byName, types, field, rot) ==
  LET names == SplitN(field.name)
  IN IF Len(names) # 2
     THEN Err("doesnt have an object name and service name", <<field.name>>)
     ELSE IF ~IsKind(types, names[2], "OBJECT")
     THEN Err("Expected objectName on merged schema", <<names[2]>>)
     ELSE FirstError(
            [a \in DOMAIN field.args |->
               entryArgError(serviceNames, byName, types, names[2], field,
                             field.args[a], rot)])

\* entryKeys without the test that the field is an input field.
entryKeysAll(types, field) ==
  LET objName == SplitN(field.name)[2]
  IN {<<objName, fName>> : fName \in
        {n \in DOMAIN types[objName].fields : field.args # <<>>}}

\* schema.go:265-273: the fields of the object an accepted entry point
\* marks as federated keys of the service.
entryKeys(types, field) ==
  LET objName == SplitN(field.name)[2]
  IN {<<objName, fName>> : fName \in
        {n \in DOMAIN types[objName].fields :
           \E a \in DOMAIN field.args :
             n \in DOMAIN types[getRootType(field.args[a].type).name].inputFields}}

\* schema.go:282, 284-291: the key of fieldInfos for one declared field;
\* obj.Fields[field.Name] is nil when the object has no such field.
NilField == <<"", "">>
fieldOf(types, typ, field) ==
  IF field.name \in DOMAIN types[typ.name].fields
  THEN <<typ.name, field.name>>
  ELSE NilField

\* addService replacing the FieldInfo of a field another service declared.
addServiceOverwrite(fieldInfos, declared, service) ==
  [f \in DOMAIN fieldInfos \cup declared |->
     IF f \in declared THEN {service} ELSE fieldInfos[f]]

\* addService with one FieldInfo shared by the fields of the object.
addServiceShared(fieldInfos, declared, service) ==
  [f \in DOMAIN fieldInfos \cup declared |->
     (IF f \in DOMAIN fieldInfos THEN fieldInfos[f] ELSE {})
     \cup (IF \E d \in declared : d[1] = f[1] THEN {service} ELSE {})]

\* schema.go:284-291: service joins the Services of every field it declares;
\* a field without FieldInfo gets one.
addService(fieldInfos, declared, service) ==
  [f \in DOMAIN fieldInfos \cup declared |->
     (IF f \in DOMAIN fieldInfos THEN fieldInfos[f] ELSE {})
     \cup (IF f \in declared THEN {service} ELSE {})]

\* schema.go:269-272: FederatedKey[service] = true on every marked field.
markKeys(federatedKey, marked, service) ==
  [f \in DOMAIN federatedKey \cup marked |->
     (IF f \in DOMAIN federatedKey THEN federatedKey[f] ELSE {})
     \cup (IF f \in marked THEN {service} ELSE {})]

\* schema.go:225-294: one type of one service.  acc is the annotation so
\* far: err, fieldInfos, federatedKey.
annotateType(serviceNames, byName, types, service, typ, acc, rot) ==
  LET fedErr ==
        IF typ.name # "Federation" THEN NoError
        ELSE FirstError([i \in DOMAIN typ.fields |->
               entryError(serviceNames, byName, types, typ.fields[i], rot)])
      marked ==
        IF typ.name # "Federation" \/ fedErr # NoError THEN {}
        ELSE UNION {entryKeys(types, typ.fields[i]) : i \in DOMAIN typ.fields}
      declared ==
        IF typ.kind # "OBJECT" THEN {}
        ELSE {fieldOf(types, typ, typ.fields[i]) : i \in DOMAIN typ.fields}
  IN IF acc.err # NoError THEN acc
     ELSE IF fedErr # NoError THEN [acc EXCEPT !.err = fedErr]
     ELSE IF typ.kind = "OBJECT" /\ ~IsKind(types, typ.name, "OBJECT")
     THEN \* line 278: the type assertion without ok
          [acc EXCEPT !.err = Panic]
     ELSE [err |-> NoError,
           fieldInfos |-> addService(acc.fieldInfos, declared, service),
           federatedKey |-> markKeys(acc.federatedKey, marked, service)]

RECURSIVE annotateTypes(_, _, _, _, _, _, _)
\* schema.go:225: the types of one service, in slice order.
annotateTypes(serviceNames, byName, types, service, rest, acc, rot) ==
  IF rest = <<>> THEN acc
  ELSE annotateTypes(serviceNames, byName, types, service, Tail(rest),
         annotateType(serviceNames, byName, types, service, Head(rest), acc,
                      rot),
         rot)

RECURSIVE annotateServices(_, _, _, _, _, _)
\* schema.go:224: the services, in sorted order.
annotateServices(serviceNames, byName, types, rest, acc, rot) ==
  IF rest = <<>> THEN acc
  ELSE annotateServices(serviceNames, byName, types, Tail(rest),
         annotateTypes(serviceNames, byName, types, Head(rest),
                       byName[Head(rest)], acc, rot),
         rot)

\* schema.go:217-221: the federation check of every name of the type
\* table, in map order.
federatedObjectsError(serviceNames, byName, types, rot) ==
  LET order == MapOrder(DOMAIN types, rot)
  IN FirstError([i \in DOMAIN order |->
       validateFederatedObjects(serviceNames, byName, order[i])])

\* schema.go:223-309, from the type table on.
annotate(serviceNames, byName, types, rot) ==
  LET acc == annotateServices(serviceNames, byName, types, serviceNames,
               [err |-> NoError, fieldInfos |-> <<>>, federatedKey |-> <<>>],
               rot)
      shadow == validateFieldsReturningFederatedObject(byName, types,
                  acc.fieldInfos, rot)
  IN IF acc.err # NoError THEN Failure(acc.err)
     ELSE IF shadow # NoError THEN Failure(shadow)
     ELSE Success(types, acc.fieldInfos, acc.federatedKey)

\* schema.go:179-205: serviceSchemasByName.
serviceSchemasByName(table) ==
  [service \in DOMAIN table |-> serviceSchemaOf(table[service]).types]

\* src/federation/schema.go:172-309.  table is the service -> version ->
\* schema table; rot fixes the order this run walks its maps in.
ConvertVersionedSchemas(table, rot) ==
  LET serviceNames == sortedServiceNames(table)
      intersectErr == FirstError([i \in DOMAIN serviceNames |->
                        serviceSchemaOf(table[serviceNames[i]]).err])
      byName == serviceSchemasByName(table)
      merged == mergeSchemaSlice(
                  [i \in DOMAIN serviceNames |-> byName[serviceNames[i]]],
                  Union)
      parsed == parseSchema(merged.types)
      fedErr == federatedObjectsError(serviceNames, byName, parsed.types, rot)
  IN IF intersectErr # NoError THEN Failure(intersectErr)
     ELSE IF merged.err # NoError THEN Failure(merged.err)
     ELSE IF parsed.err # NoError THEN Failure(parsed.err)
     ELSE IF fedErr # NoError THEN Failure(fedErr)
     ELSE annotate(serviceNames, byName, parsed.types, rot)

(***************************************************************************)
(* The query planner (spec section 4.2), run against the annotated schema  *)
(* a successful ConvertVersionedSchemas returned.  A Plan is the record    *)
(* [Service, Type, Path, Selections, After]; a Selection the record        *)
(* [Name, Alias, Children].                                                *)
(***************************************************************************)
Selection(name, children) ==
  [Name |-> name, Alias |-> name, Children |-> children]

\* Step 3: the target service of a field no selection of which the current
\* service resolves, the first of its Services in lexicographic order.
pickService(services) == SelectNames(Services, services)[1]

\* The name of the type a resolved type ends in.
typeNameOf(resolved) == resolved[Len(resolved)]

RECURSIVE Flatten(_)
Flatten(seqs) ==
  IF seqs = <<>> THEN <<>> ELSE Head(seqs) \o Flatten(Tail(seqs))

PlanFailure == [ok |-> FALSE, Selections |-> <<>>, After |-> <<>>]

\* The Federation object of the annotated schema has the entry point
\* <service>_<T>.
hasEntryPoint(annotated, service, T) ==
  /\ IsKind(annotated.types, "Federation", "OBJECT")
  /\ (service \o "_" \o T) \in DOMAIN annotated.types["Federation"].fields

\* Step 5: the fields injected into the selections of the parent for a
\* hand-off of objects of type T to the services others: the federation
\* keys of each of them on T and, when T is federated and one of them has
\* its entry point for T, the marker.
injectedFields(annotated, T, others) ==
  {K \in DOMAIN annotated.types[T].fields :
     /\ <<T, K>> \in DOMAIN annotated.FederatedKey
     /\ annotated.FederatedKey[<<T, K>>] \cap others # {}}
  \cup (IF \E service \in others : hasEntryPoint(annotated, service, T)
        THEN {federationField} \cap DOMAIN annotated.types[T].fields
        ELSE {})

\* routable without the test.
routableUnchecked(annotated, T, S, names) == TRUE

\* The routing constraint of an injected field: it is sent with the
\* selections of the parent, so the parent's service S must be among its
\* Services (section 3: every leaf selection's field has the service of its
\* Plan among its Services).
routable(annotated, T, S, names) ==
  \A K \in names : S \in annotated.Fields[<<T, K>>]

RECURSIVE planObject(_, _, _, _)
\* Step 2: a selection the current service resolves, planned with its
\* children still rooted at the service; the Plans that escape from below
\* get the alias of the selection in front of their Path.  The Path holds
\* aliases only, under a List too: TestPlan (federation_test.go:550-600)
\* expects the Path <<"s1fff">> below the field s1fff that returns a list
\* of foo, without the ? segment of step 6.
planLocal(annotated, T, S, sel) ==
  LET resolved == annotated.types[T].fields[sel.Name].Type
      hop == <<sel.Alias>>
      sub == IF sel.Children = <<>>
             THEN [ok |-> TRUE, Selections |-> <<>>, After |-> <<>>]
             ELSE planObject(annotated, typeNameOf(resolved), S, sel.Children)
  IN [ok |-> sub.ok,
      Selections |-> <<[sel EXCEPT !.Children = sub.Selections]>>,
      After |-> [i \in DOMAIN sub.After |->
                   [sub.After[i] EXCEPT !.Path = hop \o @]]]

\* Steps 1 to 5 for the selection set sels at object type T routed to
\* service S ("" above the top-level Plans, where no service is current
\* and nothing is injected).  The planner fails on a field the merged
\* schema has not and on a field no service resolves under the routing
\* constraints: an injected field the parent's service does not resolve.
planObject(annotated, T, S, sels) ==
  IF \/ ~IsKind(annotated.types, T, "OBJECT")
     \/ \E i \in DOMAIN sels :
          sels[i].Name \notin DOMAIN annotated.types[T].fields
  THEN PlanFailure
  ELSE
    LET target(sel) ==
          IF S \in annotated.Fields[<<T, sel.Name>>] THEN S
          ELSE pickService(annotated.Fields[<<T, sel.Name>>])
        IsLocal(sel) == target(sel) = S
        local == SelectSeq(sels, IsLocal)
        others == {target(sels[i]) : i \in DOMAIN sels} \ {S}
        order == SelectNames(Services, others)
        planned == [i \in DOMAIN local |-> planLocal(annotated, T, S, local[i])]
        handed ==
          [i \in DOMAIN order |->
             LET GoesThere(sel) == target(sel) = order[i]
             IN planObject(annotated, T, order[i], SelectSeq(sels, GoesThere))]
        requested == {local[i].Name : i \in DOMAIN local}
        needed == IF S = "" THEN {}
                  ELSE injectedFields(annotated, T, others) \ requested
        injected ==
          LET names == SortedNames(needed)
          IN [i \in DOMAIN names |-> Selection(names[i], <<>>)]
    IN IF \/ \E i \in DOMAIN planned : ~planned[i].ok
          \/ \E i \in DOMAIN handed : ~handed[i].ok
          \/ ~routable(annotated, T, S, needed)
       THEN PlanFailure
       ELSE [ok |-> TRUE,
             Selections |->
               Flatten([i \in DOMAIN planned |-> planned[i].Selections])
               \o injected,
             After |->
               Flatten([i \in DOMAIN planned |-> planned[i].After])
               \o [i \in DOMAIN order |->
                     [Service |-> order[i], Type |-> T, Path |-> <<>>,
                      Selections |-> handed[i].Selections,
                      After |-> handed[i].After]]]

\* The root Plan of a selection set on Query: a wrapper without selections
\* whose After holds the top-level Plans, one per service.
Plan(annotated, selectionSet) ==
  LET top == planObject(annotated, "Query", "", selectionSet)
  IN [ok |-> top.ok, Service |-> "", Type |-> "Query", Path |-> <<>>,
      Selections |-> <<>>, After |-> top.After]

\* The selection sets clients send in this model.
Queries ==
  {<<Selection("g", <<Selection("name", <<>>), Selection("age", <<>>)>>)>>,
   <<Selection("h", <<Selection("name", <<>>), Selection("age", <<>>)>>)>>,
   <<Selection("g", <<Selection("age", <<>>)>>),
     Selection("h", <<Selection("name", <<>>)>>)>>}

(***************************************************************************)
(* The state machine.                                                      *)
(***************************************************************************)
\* No run of ConvertVersionedSchemas on the current table yet.
NotRun == Failure(Err("not run", <<>>))

NoSchemas == [service \in {} |-> <<>>]

Reports(table) ==
  LET counts == [service \in DOMAIN table |-> Cardinality(DOMAIN table[service])]
      sum[S \in SUBSET DOMAIN table] ==
        IF S = {} THEN 0
        ELSE LET x == CHOOSE x \in S : TRUE IN counts[x] + sum[S \ {x}]
  IN sum[DOMAIN table]

\* No Plan made yet.
NoPlan ==
  [ok |-> FALSE, Service |-> "", Type |-> "", Path |-> <<>>,
   Selections |-> <<>>, After |-> <<>>]

\* No run of parseSchema on the current list yet.
NotParsed == [err |-> Err("not run", <<>>), types |-> <<>>]

Init ==
  /\ schemas = NoSchemas
  /\ result = NotRun
  /\ prev = NotRun
  /\ typeList = <<>>
  /\ typeTable = NotParsed
  /\ plan = NoPlan

\* A service reports the schema of one more of its versions, before the
\* gateway merges the table; a further version is one of RevisedSchemas.
Report(service, schema) ==
  LET known == IF service \in DOMAIN schemas THEN schemas[service]
               ELSE [v \in {} |-> <<>>]
      n == Cardinality(DOMAIN known)
  IN /\ result = NotRun
     /\ Reports(schemas) < MaxReports
     /\ n < Len(Versions)
     /\ n > 0 => schema \in RevisedSchemas
     /\ schemas' =
          [s \in DOMAIN schemas \cup {service} |->
             IF s = service
             THEN [v \in DOMAIN known \cup {Versions[n + 1]} |->
                     IF v \in DOMAIN known THEN known[v] ELSE schema]
             ELSE schemas[s]]
     /\ UNCHANGED <<result, prev, typeList, typeTable, plan>>

\* The gateway merges the table; at most twice per table.
Convert(rot) ==
  /\ DOMAIN schemas # {}
  /\ prev = NotRun
  /\ result' = ConvertVersionedSchemas(schemas, rot)
  /\ prev' = result
  /\ UNCHANGED <<schemas, typeList, typeTable, plan>>

Next ==
  \/ \E service \in Range(Services), schema \in ReportedSchemas :
       Report(service, schema)
  \/ \E rot \in MapRots : Convert(rot)

Spec == Init /\ [][Next]_vars

\* parseSchema on its own.  One more type is put on the list handed to
\* parseSchema.
Declare(typ) ==
  /\ typeTable = NotParsed
  /\ Len(typeList) < MaxTypes
  /\ typeList' = Append(typeList, typ)
  /\ UNCHANGED <<schemas, result, prev, typeTable, plan>>

\* parseSchema runs on the list.
Parse ==
  /\ typeTable = NotParsed
  /\ typeTable' = parseSchema(typeList)
  /\ UNCHANGED <<schemas, result, prev, typeList, plan>>

ParseNext ==
  \/ \E typ \in IntrospectedTypes : Declare(typ)
  \/ Parse

ParseSpec == Init /\ [][ParseNext]_vars

\* The planner makes the Plan of a client's selection set against the
\* annotated schema of the last run.
PlanQuery(selectionSet) ==
  /\ result.ok
  /\ plan = NoPlan
  /\ plan' = Plan(result, selectionSet)
  /\ UNCHANGED <<schemas, result, prev, typeList, typeTable>>

PlanNext ==
  \/ Next
  \/ \E selectionSet \in Queries : PlanQuery(selectionSet)

PlanSpec == Init /\ [][PlanNext]_vars
(***************************************************************************)
(* Properties.  They are stated on the table and on the result of the      *)
(* last run.  bn is the table of the intersected schemas, service name ->  *)
(* types.                                                                  *)
(***************************************************************************)
Ran == result # NotRun

\* The types named T that a list of types declares.
Declared(types, T) == {types[i] : i \in {j \in DOMAIN types : types[j].name = T}}

\* S declares a type named T with (without) the _federation field.
FederatedOn(bn, S, T) ==
  \E typ \in Declared(bn[S], T) : HasField(typ, federationField)
UnfederatedOn(bn, S, T) ==
  \E typ \in Declared(bn[S], T) : ~HasField(typ, federationField)

\* S declares field F on the OBJECT type T.
DeclaresField(bn, S, T, F) ==
  \E typ \in Declared(bn[S], T) : typ.kind = "OBJECT" /\ HasField(typ, F)

\* Some service declares the OBJECT type T.
ObjectDeclared(bn, T) ==
  \E S \in DOMAIN bn : \E typ \in Declared(bn[S], T) : typ.kind = "OBJECT"

\* Some service declares the INPUT_OBJECT type I.
InputObjectDeclared(bn, I) ==
  \E S \in DOMAIN bn : \E typ \in Declared(bn[S], I) : typ.kind = "INPUT_OBJECT"

\* The fields of the types named Federation of S: its entry points.
EntriesOf(bn, S) ==
  UNION {Range(typ.fields) : typ \in Declared(bn[S], "Federation")}

\* The members the services declare for the input object named I.
MembersOf(bn, I) ==
  UNION {NamesOf(typ.inputFields) :
           typ \in UNION {Declared(bn[S], I) : S \in DOMAIN bn}}

\* The (object, key) pairs the code takes from the fields of the Federation
\* type of S (schema.go:230-274): the object after the first underscore of
\* the field's name, whatever stands before it, and the members the input
\* objects of its arguments have in the merged schema.
EntryKeysOf(bn, S) ==
  UNION {{<<SplitN(e.name)[2], K>> :
            K \in UNION {MembersOf(bn, getRootType(e.args[a].type).name) :
                           a \in DOMAIN e.args}} :
         e \in {x \in EntriesOf(bn, S) : Len(SplitN(x.name)) = 2}}

\* C1: after a successful merge every field of every OBJECT type of the
\* intersected schema of a service S has S in the Services of its FieldInfo.
C1_DeclaringServiceResolves ==
  result.ok =>
    LET bn == serviceSchemasByName(schemas)
    IN \A S \in DOMAIN bn : \A t \in DOMAIN bn[S] :
         bn[S][t].kind = "OBJECT" =>
           \A i \in DOMAIN bn[S][t].fields :
             LET f == <<bn[S][t].name, bn[S][t].fields[i].name>>
             IN f \in DOMAIN result.Fields /\ S \in result.Fields[f]

\* A successful merge of two services that declare the same field.
C1_Witness ==
  /\ result.ok
  /\ \E f \in DOMAIN result.Fields : Cardinality(result.Fields[f]) = 2

\* A type other than Query and Mutation that one service declares with the
\* _federation field and a service declares without it.
PartlyFederated(bn, T) ==
  /\ T \notin {"Query", "Mutation"}
  /\ \E S \in DOMAIN bn : FederatedOn(bn, S, T)
  /\ \E S \in DOMAIN bn : UnfederatedOn(bn, S, T)

\* C2: the merge fails when some type other than Query and Mutation is
\* federated on one service and declared without _federation on another;
\* the federation check fails for no other type (not for Query or Mutation,
\* not for a type no service federates).
C2_FederatedEverywhere ==
  Ran =>
    LET bn == serviceSchemasByName(schemas)
    IN /\ (\E T \in TypeNames : PartlyFederated(bn, T)) => ~result.ok
       /\ result.err.kind = "exists on another server and is not federated"
            => PartlyFederated(bn, result.err.args[1])

\* The federation check failed.
C2_Witness ==
  result.err.kind = "exists on another server and is not federated"

\* A service declares T as a root (with _federation) without the field K.
RootWithout(bn, T, K) ==
  \E S \in DOMAIN bn :
    \E typ \in Declared(bn[S], T) :
      HasField(typ, federationField) /\ ~HasField(typ, K)

\* The (object, key) pairs of the entry points of all services.
CheckedKeys(bn) == UNION {EntryKeysOf(bn, S) : S \in DOMAIN bn}

\* C3: the merge fails when an entry point names object T, its input object
\* has a member K and some service declares T with _federation but without
\* K; the federation-key validation fails only for such a K, never on
\* account of a service that declares T without _federation.
C3_KeyOnEveryRoot ==
  Ran =>
    LET bn == serviceSchemasByName(schemas)
    IN /\ (\E k \in CheckedKeys(bn) : RootWithout(bn, k[1], k[2])) => ~result.ok
       /\ result.err.kind = "Invalid federation key"
            => \E k \in CheckedKeys(bn) :
                 k[2] = result.err.args[1] /\ RootWithout(bn, k[1], k[2])

\* The federation-key validation failed.
C3_Witness == result.err.kind = "Invalid federation key"

\* The fields of the OBJECT types of S whose return type is, under its
\* wrappers, the object T.
ReturningFields(bn, S, T) ==
  {f \in UNION {Range(bn[S][t].fields) :
                  t \in {i \in DOMAIN bn[S] : bn[S][i].kind = "OBJECT"}} :
     getRootType(f.type).kind = "OBJECT" /\ getRootType(f.type).name = T}

\* Some service declares the entry point named name on an OBJECT type
\* Federation.
EntryDeclared(bn, name) ==
  \E S \in DOMAIN bn : DeclaresField(bn, S, "Federation", name)

\* An entry point name of S as the spec words it: <S>_<T> with T an object
\* of the merged schema.
WellNamed(bn, S, name) ==
  \E T \in TypeNames : ObjectDeclared(bn, T) /\ name = S \o "_" \o T

\* Every entry point of every service is named as the spec words it.
AllWellNamed(bn) ==
  \A S \in DOMAIN bn : \A e \in EntriesOf(bn, S) : WellNamed(bn, S, e.name)

Shadows(bn, S, f, T) ==
  /\ f \in ReturningFields(bn, S, T)
  /\ \E S2 \in DOMAIN bn : DeclaresField(bn, S2, T, federationField)
  /\ ~DeclaresField(bn, S, T, federationField)
  /\ f.name # S \o "_" \o T
  /\ EntryDeclared(bn, S \o "_" \o T)

FieldsOf(bn, T) ==
  UNION {NamesOf(typ.fields) :
           typ \in {x \in UNION {Declared(bn[S], T) : S \in DOMAIN bn} :
                      x.kind = "OBJECT"}}

\* All (object, field) pairs of the table.
AllFields(bn) == UNION {{<<T, F>> : F \in FieldsOf(bn, T)} : T \in TypeNames}

\* The services the result marks field f a federated key of.
KeyServices(f) ==
  IF f \in DOMAIN result.FederatedKey THEN result.FederatedKey[f] ELSE {}

\* The members S itself declares for the input object named I.
OwnMembersOf(bn, S, I) ==
  UNION {NamesOf(typ.inputFields) : typ \in Declared(bn[S], I)}

\* The (object, key) pairs of the entry points of S as the spec words
\* them: the entry point named S_T, the members of the input object S
\* declares for its argument.
NamedEntryKeysOf(bn, S) ==
  UNION {{<<T, K>> :
            K \in UNION {OwnMembersOf(bn, S, getRootType(e.args[a].type).name) :
                           a \in DOMAIN e.args}} :
         <<e, T>> \in {x \in EntriesOf(bn, S) \X TypeNames :
                         x[1].name = S \o "_" \o x[2]}}

\* C5 as claimed: after a successful merge, T.K.FederatedKey[S] is set
\* exactly when K is a field of T and the entry point named S_T of service
\* S has an input object with a member K.
C5_Claimed ==
  result.ok =>
    LET bn == serviceSchemasByName(schemas)
    IN \A f \in AllFields(bn) :
         KeyServices(f) = {S \in DOMAIN bn : f \in NamedEntryKeysOf(bn, S)}

\* C5 as amended: after a successful merge, T.K.FederatedKey[S] is set
\* exactly when K is a field of T and the Federation type of S declares an
\* entry point whose name has T after its first underscore, whatever stands
\* before it, with an argument whose input object has, in the merged
\* schema, a member K; no other field and no other service is marked.
C5_KeysFromEntryPoints ==
  result.ok =>
    LET bn == serviceSchemasByName(schemas)
    IN /\ DOMAIN result.FederatedKey \subseteq AllFields(bn)
       /\ \A f \in AllFields(bn) :
            KeyServices(f) = {S \in DOMAIN bn : f \in EntryKeysOf(bn, S)}

\* A successful merge that marked a federated key.
C5_Witness ==
  /\ result.ok
  /\ \E f \in DOMAIN result.FederatedKey : result.FederatedKey[f] # {}

\* C6 as claimed: the merge fails when an entry point of a service S is not
\* named S_T for an object T of the merged schema.
C6_Claimed ==
  Ran =>
    LET bn == serviceSchemasByName(schemas)
    IN (\E S \in DOMAIN bn : \E e \in EntriesOf(bn, S) : ~WellNamed(bn, S, e.name))
       => ~result.ok

\* An entry point name the code rejects: no underscore, or no object of the
\* merged schema after the first underscore.
Misnamed(bn, name) ==
  \/ Len(SplitN(name)) # 2
  \/ ~ObjectDeclared(bn, SplitN(name)[2])

\* C6 as amended: the merge fails when the name of an entry point has no
\* underscore or the part after its first underscore names no object of
\* the merged schema, and the two naming errors are raised for such an
\* entry only; the part before the underscore is not compared with the
\* declaring service.
C6_ObjectNameChecked ==
  Ran =>
    LET bn == serviceSchemasByName(schemas)
        entries == UNION {EntriesOf(bn, S) : S \in DOMAIN bn}
    IN /\ (\E e \in entries : Misnamed(bn, e.name)) => ~result.ok
       /\ result.err.kind = "doesnt have an object name and service name"
            => \E e \in entries :
                 e.name = result.err.args[1] /\ Len(SplitN(e.name)) # 2
       /\ result.err.kind = "Expected objectName on merged schema"
            => \E e \in entries :
                 /\ Len(SplitN(e.name)) = 2
                 /\ SplitN(e.name)[2] = result.err.args[1]
                 /\ ~ObjectDeclared(bn, result.err.args[1])

\* The merge rejected an entry point for its name.
C6_Witness ==
  result.err.kind \in {"doesnt have an object name and service name",
                       "Expected objectName on merged schema"}

\* C7 as claimed: the merge fails when an entry point has no argument, more
\* than one argument, or an argument whose root type is no INPUT_OBJECT.
\* (Stated for the tables whose entry points all are well named.)
C7_Claimed ==
  Ran =>
    LET bn == serviceSchemasByName(schemas)
    IN (\E S \in DOMAIN bn : \E e \in EntriesOf(bn, S) :
          /\ AllWellNamed(bn)
          /\ \/ Len(e.args) # 1
             \/ \E a \in DOMAIN e.args :
                  getRootType(e.args[a].type).kind # "INPUT_OBJECT")
       => ~result.ok

\* C7 as amended: the merge fails when some argument of an entry point has
\* a root type that names no input object of the merged schema, and this
\* error is raised for such an argument only; every argument of an entry
\* point of a successful merge is an input object of the type table, and
\* the number of arguments is not checked.
C7_ArgumentsAreInputObjects ==
  Ran =>
    LET bn == serviceSchemasByName(schemas)
        entries == UNION {EntriesOf(bn, S) : S \in DOMAIN bn}
        bad(e) == {getRootType(e.args[a].type).name : a \in DOMAIN e.args}
                    \ {I \in TypeNames : InputObjectDeclared(bn, I)}
    IN /\ (\E e \in entries : bad(e) # {}) => ~result.ok
       /\ result.err.kind = "is not an input object"
            => \E e \in entries :
                 e.name = result.err.args[2] /\ result.err.args[1] \in bad(e)
       /\ result.ok =>
            \A e \in entries : \A a \in DOMAIN e.args :
              IsKind(result.types, getRootType(e.args[a].type).name,
                     "INPUT_OBJECT")

\* The merge rejected an entry point for an argument.
C7_Witness == result.err.kind = "is not an input object"

\* C8: after a successful merge every field of every object of the type
\* table has a FieldInfo whose Services are not empty, are configured
\* services, and are the services whose own schema declares the field on
\* the object.
C8_ServicesDeclareField ==
  result.ok =>
    LET bn == serviceSchemasByName(schemas)
    IN \A T \in DOMAIN result.types :
         result.types[T].kind = "OBJECT" =>
           \A F \in DOMAIN result.types[T].fields :
             /\ <<T, F>> \in DOMAIN result.Fields
             /\ result.Fields[<<T, F>>] # {}
             /\ result.Fields[<<T, F>>] \subseteq DOMAIN schemas
             /\ result.Fields[<<T, F>>] =
                  {S \in DOMAIN schemas : DeclaresField(bn, S, T, F)}

\* A successful merge of two services with a field both declare and a field
\* only one declares.
C8_Witness ==
  /\ result.ok
  /\ \E f \in DOMAIN result.Fields : Cardinality(result.Fields[f]) = 2
  /\ \E f \in DOMAIN result.Fields : Cardinality(result.Fields[f]) = 1

\* Version v of service S declares field F on the OBJECT type T.
VersionDeclares(S, v, T, F) ==
  \E typ \in Declared(schemas[S][v], T) : typ.kind = "OBJECT" /\ HasField(typ, F)

\* Every version of S declares T, and all with (some without) _federation.
FederatedInAllVersions(S, T) ==
  \A v \in DOMAIN schemas[S] :
    \E typ \in Declared(schemas[S][v], T) : HasField(typ, federationField)
UnfederatedInSomeVersion(S, T) ==
  /\ \A v \in DOMAIN schemas[S] : Declared(schemas[S][v], T) # {}
  /\ \E v \in DOMAIN schemas[S] :
       \E typ \in Declared(schemas[S][v], T) : ~HasField(typ, federationField)

\* Every version of S declares field F on the OBJECT type T, and all with
\* the same type.
SharedField(S, T, F) ==
  \E typ \in Declared(schemas[S][Versions[1]], T) :
    \E i \in DOMAIN typ.fields :
      /\ typ.fields[i].name = F
      /\ \A v \in DOMAIN schemas[S] :
           \E x \in Declared(schemas[S][v], T) :
             /\ x.kind = "OBJECT"
             /\ \E j \in DOMAIN x.fields :
                  /\ x.fields[j].name = F
                  /\ x.fields[j].type = typ.fields[i].type

\* The entry points every version of S declares, with one return type, as
\* the first version declares them (a shared field keeps the arguments of
\* its first declaration).
SharedEntries(S) ==
  LET entries(v) ==
        UNION {Range(typ.fields) : typ \in Declared(schemas[S][v], "Federation")}
  IN {e \in entries(Versions[1]) :
        \A v \in DOMAIN schemas[S] :
          \E x \in entries(v) : x.name = e.name /\ x.type = e.type}

\* Every version of S declares the input object I with the member K.
SharedMember(S, I, K) ==
  \A v \in DOMAIN schemas[S] :
    \E typ \in Declared(schemas[S][v], I) :
      typ.kind = "INPUT_OBJECT" /\ K \in NamesOf(typ.inputFields)

\* K is a federation key of an entry point for T that all versions of a
\* service share: a member, in all versions of a service, of the input
\* object of an argument of the entry point.
SharedKey(T, K) ==
  \E S \in DOMAIN schemas : \E e \in SharedEntries(S) :
    /\ Len(SplitN(e.name)) = 2
    /\ SplitN(e.name)[2] = T
    /\ \E a \in DOMAIN e.args : \E S2 \in DOMAIN schemas :
         SharedMember(S2, getRootType(e.args[a].type).name, K)

\* The keys of S on T: SharedKey for the entry points of S.
SharedKeyOf(S, T, K) ==
  \E e \in SharedEntries(S) :
    /\ Len(SplitN(e.name)) = 2
    /\ SplitN(e.name)[2] = T
    /\ \E a \in DOMAIN e.args : \E S2 \in DOMAIN schemas :
         SharedMember(S2, getRootType(e.args[a].type).name, K)

\* C9: a service is attributed what all of its versions share.  S is in the
\* Services of a field only if every version of S declares the field; a
\* field K of T is a federated key of S only if every version of S declares
\* the entry point for T and K is, in every version of some service, a
\* member of the input object of its argument; the federation check fails
\* for T only if some service federates T in all of its versions and some
\* service declares T in all of its versions, in one of them without
\* _federation; and the federation-key validation fails for K only if K is
\* such a shared key of an object T that some service federates in all of
\* its versions while its versions do not all declare K on T with one type.
C9_VersionsIntersected ==
  /\ result.ok =>
       /\ \A f \in DOMAIN result.Fields : \A S \in result.Fields[f] :
            /\ \A v \in DOMAIN schemas[S] : VersionDeclares(S, v, f[1], f[2])
            /\ SharedField(S, f[1], f[2])
       /\ \A f \in DOMAIN result.FederatedKey : \A S \in result.FederatedKey[f] :
            SharedKeyOf(S, f[1], f[2])
  /\ result.err.kind = "exists on another server and is not federated" =>
       /\ \E S \in DOMAIN schemas : FederatedInAllVersions(S, result.err.args[1])
       /\ \E S \in DOMAIN schemas : UnfederatedInSomeVersion(S, result.err.args[1])
  /\ result.err.kind = "Invalid federation key" =>
       \E T \in TypeNames :
         /\ SharedKey(T, result.err.args[1])
         /\ \E S \in DOMAIN schemas :
              /\ FederatedInAllVersions(S, T)
              /\ ~SharedField(S, T, result.err.args[1])

\* A successful merge of two services, one of them with two versions: its
\* first version declares a field the second does not, and has a member K
\* of the input object of its entry point that the second has not; K is no
\* federated key, and the other service federates the object without K.
C9_Witness ==
  /\ result.ok
  /\ Cardinality(DOMAIN schemas) = 2
  /\ \E S \in DOMAIN schemas :
       /\ Cardinality(DOMAIN schemas[S]) = 2
       /\ \E T \in TypeNames :
            \E typ \in Declared(schemas[S]["v1"], T) :
              \E i \in DOMAIN typ.fields :
                /\ typ.kind = "OBJECT"
                /\ ~VersionDeclares(S, "v2", T, typ.fields[i].name)
       /\ \E K \in {"age", "name"} :
            /\ \E typ \in Declared(schemas[S]["v1"], "Keys") :
                 K \in NamesOf(typ.inputFields)
            /\ \E typ \in Declared(schemas[S]["v2"], "Keys") :
                 K \notin NamesOf(typ.inputFields)
            /\ KeyServices(<<"Foo", K>>) = {}
            /\ \E S2 \in DOMAIN schemas \ {S} :
                 /\ FederatedInAllVersions(S2, "Foo")
                 /\ ~VersionDeclares(S2, "v1", "Foo", K)

\* C10: two runs on the same table, whatever order each walks its maps in,
\* both fail or both succeed with equal type tables, Services and
\* FederatedKey maps.
C10_Deterministic ==
  prev # NotRun =>
    /\ result.ok = prev.ok
    /\ result.ok =>
         /\ result.types = prev.types
         /\ result.Fields = prev.Fields
         /\ result.FederatedKey = prev.FederatedKey

\* Two runs on a table of two services that succeeded.
C10_Witness ==
  /\ prev # NotRun
  /\ result.ok
  /\ Cardinality(DOMAIN schemas) = 2

(***************************************************************************)
(* Properties of parseSchema on its own, stated on typeList and typeTable. *)
(***************************************************************************)
Parsed == typeTable # NotParsed

\* The positions of the list whose name an earlier position has.
Repeats(types) ==
  {j \in DOMAIN types : \E i \in 1..(j - 1) : types[i].name = types[j].name}

\* The positions of the list whose kind parseSchema does not know.
UnknownKinds(types) == {i \in DOMAIN types : types[i].kind \notin NamedKinds}

Least(S) == CHOOSE i \in S : \A j \in S : i <= j

\* C11 as claimed: parseSchema fails with the duplicate-type error
\* whenever two entries of the list share a name.
C11_Claimed ==
  (Parsed /\ Repeats(typeList) # {}) => typeTable.err.kind = "duplicate type"

\* C11 as amended: parseSchema fails whenever two entries of the list
\* share a name, with the duplicate-type error for the first repeated name
\* unless a type of unknown kind stands before the repetition, and then
\* with the unknown-kind error; the duplicate-type error is returned for a
\* repeated name only; on success the table has exactly one entry for
\* every declared name, of the declared kind.
C11_DuplicatesRejected ==
  Parsed =>
    /\ Repeats(typeList) # {} =>
         LET j == Least(Repeats(typeList))
             before == {i \in UnknownKinds(typeList) : i < j}
         IN IF before = {}
            THEN typeTable.err = Err("duplicate type", <<typeList[j].name>>)
            ELSE typeTable.err =
                   Err("unknown type kind", <<typeList[Least(before)].kind>>)
    /\ typeTable.err.kind = "duplicate type" =>
         \E j \in Repeats(typeList) : typeTable.err.args = <<typeList[j].name>>
    /\ typeTable.err = NoError =>
         /\ DOMAIN typeTable.types = NamesOf(typeList)
         /\ Cardinality(DOMAIN typeTable.types) = Len(typeList)
         /\ \A i \in DOMAIN typeList :
              /\ typeTable.types[typeList[i].name].name = typeList[i].name
              /\ typeTable.types[typeList[i].name].kind = typeList[i].kind

\* parseSchema rejected a list for a repeated name.
C11_Witness == Parsed /\ typeTable.err.kind = "duplicate type"

\* parseSchema returned an error value: it neither succeeded nor crashed.
ReturnedError == typeTable.err \notin {NoError, Panic, NotParsed.err}

\* The possible types the unions of the list name.
PossibleTypes(types) ==
  UNION {Range(types[i].possibleTypes) :
           i \in {j \in DOMAIN types : types[j].kind = "UNION"}}

\* The name is the name of an OBJECT type of the list.
NamesObject(types, name) ==
  \E i \in DOMAIN types : types[i].name = name /\ types[i].kind = "OBJECT"

\* C13: parseSchema returns an error, and neither succeeds nor crashes,
\* whenever a UNION lists a possible type that is not of kind OBJECT or
\* whose name is not the name of an object of the list.
C13_Claimed ==
  (/\ Parsed
   /\ \E other \in PossibleTypes(typeList) :
        other.kind # "OBJECT" \/ ~NamesObject(typeList, other.name))
  => ReturnedError

\* A type reference of a known kind whose wrappers all have their ofType.
RECURSIVE WellFormed(_)
WellFormed(t) ==
  \/ t.kind \in NamedKinds
  \/ /\ t.kind \in {"LIST", "NON_NULL"}
     /\ t.ofType # <<>>
     /\ WellFormed(t.ofType[1])

\* The type references of the arguments and of the input-object fields of
\* the list, and those of the return types of its fields.
InputRefs(types) ==
  UNION {{a.type : a \in Range(types[i].inputFields)} : i \in DOMAIN types}
  \cup UNION {UNION {{a.type : a \in Range(f.args)} :
                       f \in Range(types[i].fields)} : i \in DOMAIN types}
ReturnRefs(types) ==
  UNION {{f.type : f \in Range(types[i].fields)} : i \in DOMAIN types}

\* C14: parseSchema returns an error value, and neither succeeds nor
\* crashes, whenever an argument or an input-object field has a type
\* reference of unknown kind or with a wrapper without ofType, and
\* whenever a top-level type or the return type of a field has an unknown
\* kind.
C14_Claimed ==
  (/\ Parsed
   /\ \/ \E t \in InputRefs(typeList) \cup ReturnRefs(typeList) : ~WellFormed(t)
      \/ UnknownKinds(typeList) # {})
  => ReturnedError

\* The names the list refers to: in return types, arguments, input fields
\* and possible types.
Referenced(types) ==
  {getRootType(t).name :
     t \in InputRefs(types) \cup ReturnRefs(types) \cup PossibleTypes(types)}

\* Every name the list refers to is declared in the list.
Closed(types) == Referenced(types) \subseteq NamesOf(types)

\* A list none of the errors of parseSchema is about: distinct names,
\* known kinds, complete wrappers, arguments and input fields of kind
\* INPUT_OBJECT, SCALAR or ENUM, objects as possible types.
Valid(types) ==
  /\ Repeats(types) = {}
  /\ UnknownKinds(types) = {}
  /\ \A t \in InputRefs(types) \cup ReturnRefs(types) : WellFormed(t)
  /\ \A t \in InputRefs(types) :
       getRootType(t).kind \in {"INPUT_OBJECT", "SCALAR", "ENUM"}
  /\ \A other \in PossibleTypes(types) :
       other.kind = "OBJECT" /\ NamesObject(types, other.name)

\* The List/NonNull nesting of a reference, outermost first, around the
\* name it refers to.
RECURSIVE Nesting(_)
Nesting(t) ==
  CASE t.kind = "LIST" -> <<"List">> \o Nesting(t.ofType[1])
    [] t.kind = "NON_NULL" -> <<"NonNull">> \o Nesting(t.ofType[1])
    [] OTHER -> <<t.name>>

\* The list in the order the permutation p of its positions gives.
Reordered(types, p) == [i \in DOMAIN types |-> types[p[i]]]

\* C15 as claimed: parseSchema succeeds on every list in which every
\* referenced name is declared.  (Stated for the lists with distinct
\* names, known kinds and complete wrappers on which parseSchema does not
\* crash.)
C15_Claimed ==
  (/\ Parsed
   /\ Closed(typeList)
   /\ Repeats(typeList) = {}
   /\ UnknownKinds(typeList) = {}
   /\ \A t \in InputRefs(typeList) \cup ReturnRefs(typeList) : WellFormed(t)
   /\ typeTable.err # Panic)
  => typeTable.err = NoError

\* C15 as amended: on every list none of the errors of parseSchema is
\* about and in which every referenced name is declared, in whatever order
\* the types stand, parseSchema succeeds; the resolved type of every
\* field, argument and input field is the List/NonNull nesting of its
\* reference around the name of a table entry of that name; and every
\* reordering of the list gives the same table.
C15_ResolvesInAnyOrder ==
  (Parsed /\ Closed(typeList) /\ Valid(typeList)) =>
    /\ typeTable.err = NoError
    /\ \A i \in DOMAIN typeList :
         LET typ == typeList[i]
             entry == typeTable.types[typ.name]
         IN /\ \A f \in Range(typ.fields) :
                 /\ entry.fields[f.name].Type = Nesting(f.type)
                 /\ typeTable.types[getRootType(f.type).name].name =
                      getRootType(f.type).name
                 /\ \A a \in Range(f.args) :
                      entry.fields[f.name].Args[a.name] = Nesting(a.type)
            /\ \A a \in Range(typ.inputFields) :
                 entry.inputFields[a.name] = Nesting(a.type)
            /\ entry.types = NamesOf(typ.possibleTypes)
    /\ \A p \in Permutations(DOMAIN typeList) :
         parseSchema(Reordered(typeList, p)) = typeTable

\* parseSchema succeeded on a list whose first type, Foo, refers to itself
\* and to the later type Bar, which refers back to Foo.
C15_Witness ==
  /\ Parsed
  /\ typeTable.err = NoError
  /\ Len(typeList) = 3
  /\ typeList[1] = NestFoo
  /\ BackBar \in Range(typeList)

(***************************************************************************)
(* The shadow-type validation after the federation-consistency validation. *)
(***************************************************************************)
\* The run got past validateFederatedObjects: it succeeded, or failed in
\* the annotation or in validateFieldsReturningFederatedObject.
PastConsistency ==
  \/ result.ok
  \/ result.err.kind \in
       {"doesnt have an object name and service name",
        "Expected objectName on merged schema", "is not an input object",
        "Invalid federation key", "input field is not a field on the object",
        "Return type is not a graphql object", "can not return shadow type"}

ExemptTypes == {"Query", "Mutation"}

\* C16: once the federation-consistency validation has passed, a field of
\* a service S returning the object T meets the rejecting condition of the
\* shadow-type validation only if T is Query or Mutation or S does not
\* declare T; every service that declares a federated object T other than
\* Query and Mutation declares its _federation field, and after a
\* successful run is among the Services of that field.
C16_ShadowOnlyUndeclared ==
  PastConsistency =>
    LET bn == serviceSchemasByName(schemas)
    IN /\ \A S \in DOMAIN bn : \A T \in TypeNames :
            \A f \in ReturningFields(bn, S, T) :
              Shadows(bn, S, f, T) =>
                T \in ExemptTypes \/ Declared(bn[S], T) = {}
       /\ result.err.kind = "can not return shadow type" =>
            \E S \in DOMAIN bn :
              /\ Declared(bn[S], result.err.args[2]) = {}
                   \/ result.err.args[2] \in ExemptTypes
              /\ \E f \in ReturningFields(bn, S, result.err.args[2]) :
                   f.name = result.err.args[1]
       /\ \A S \in DOMAIN bn : \A T \in TypeNames \ ExemptTypes :
            (/\ Declared(bn[S], T) # {}
             /\ \E S2 \in DOMAIN bn : FederatedOn(bn, S2, T))
            => /\ FederatedOn(bn, S, T)
               /\ result.ok /\ ObjectDeclared(bn, T) =>
                    S \in result.Fields[<<T, federationField>>]

\* A successful run on a table in which a service declares the federated
\* object T, returns it from a field other than its entry point, and the
\* entry point <service>_<T> exists, while another service federates T.
C16_Witness ==
  /\ result.ok
  /\ LET bn == serviceSchemasByName(schemas)
     IN \E S \in DOMAIN bn : \E T \in TypeNames \ ExemptTypes :
          /\ FederatedOn(bn, S, T)
          /\ \E S2 \in DOMAIN bn \ {S} : FederatedOn(bn, S2, T)
          /\ EntryDeclared(bn, S \o "_" \o T)
          /\ \E f \in ReturningFields(bn, S, T) : f.name # S \o "_" \o T

(***************************************************************************)
(* Properties of the Plans, stated on plan and on the annotated schema     *)
(* result.                                                                 *)
(***************************************************************************)
\* The Plans of the tree below a Plan.
RECURSIVE PlansBelow(_)
PlansBelow(p) ==
  UNION {{p.After[i]} \cup PlansBelow(p.After[i]) : i \in DOMAIN p.After}

\* The (object, field) pairs a selection set at object type T names, at
\* every depth.
RECURSIVE SentFields(_, _, _)
SentFields(annotated, T, sels) ==
  UNION {{<<T, sels[i].Name>>}
           \cup SentFields(annotated,
                           typeNameOf(annotated.types[T].fields[sels[i].Name].Type),
                           sels[i].Children) : i \in DOMAIN sels}

\* The selection sets of Queries the Plan can be the Plan of.
PlannedQueries == {q \in Queries : Plan(result, q) = plan}

====
